---- MODULE Spec2Model ----
(***************************************************************************)
(* A model of a3c.py: the two layer builders (_convolutional_layer,        *)
(* _fully_connected_layer) and PolicyNetwork.__init__, which assembles     *)
(* four convolutions, a BasicLSTMCell driven by tf.nn.dynamic_rnn with     *)
(* the batch dimension used as the time dimension, and two dense heads.    *)
(*                                                                         *)
(* Tensors are modelled at two levels.  Shapes are tuples of integers      *)
(* (the batch dimension of a placeholder is the string "None").  Values,   *)
(* where a property is about values, are integers in fixed point: one      *)
(* unit is 0.1, so the bias initialiser 0.1 is the integer 1.  Weights     *)
(* are dimensionless integers.                                             *)
(***************************************************************************)
EXTENDS Integers, Sequences, FiniteSets, TLC

VARIABLES
    trainable,   \* the graph's TRAINABLE_VARIABLES collection, in creation order
    varStore,    \* names claimed through tf.get_variable (the LSTM cell's variables)
    instances,   \* one record per PolicyNetwork(...) call that has terminated
    result,      \* outcome of the last direct call of a layer builder
    dense,       \* the dense layer last built, with its variables' current values
    lstmKernel,  \* current value of the LSTM cell's kernel variable
    calls        \* forward passes through the recurrent memory, in call order

vars == <<trainable, varStore, instances, result, dense, lstmKernel, calls>>

----------------------------------------------------------------------------
(* Bounds of the model. *)

MaxIn        == 5    \* largest input height/width given to a direct conv call
MaxKernel    == 3    \* largest kernel height/width given to a direct conv call
MaxStride    == 3    \* largest stride given to a direct conv call
MaxChan      == 2    \* largest channel count given to a direct conv call
MaxArity     == 5    \* longest shape descriptor handed to a builder
MaxRows      == 2    \* largest batch handed to a direct dense call
MaxFeat      == 2    \* largest input width of a direct dense call
MaxOut       == 2    \* largest output width of a direct dense call
MaxDelta     == 1    \* largest distance an optimizer moves a bias from 0.1
MaxPre       == 1    \* trainable variables other code created beforehand
MaxDim       == 33   \* largest state width/height tried by the shape sweep
MaxDepth     == 2    \* largest state depth tried by the shape sweep
MaxActions   == 4    \* largest num_actions
MaxInstances == 2    \* PolicyNetwork(...) calls in one process
MaxBatch     == 3    \* largest batch of a forward pass
MaxCalls     == 2    \* forward passes in one behaviour

(* Program constants. *)

NumFilters   == 32
KernelSize   == 3
ConvStride   == 2
NumUnits     == 256
BiasInit     == 1    \* tf.constant(0.1) in units of 0.1

----------------------------------------------------------------------------
(* Helpers on sequences and matrices. *)

Range(s) == {s[i] : i \in 1..Len(s)}

RECURSIVE SumTo(_, _)
SumTo(f, n) == IF n = 0 THEN 0 ELSE f[n] + SumTo(f, n - 1)

Tuples(S, n) == [1..n -> S]

Matrices(S, r, c) == [1..r -> [1..c -> S]]

----------------------------------------------------------------------------
(* The graph's variable collection. *)

\* tf.Variable(..., name=base) under with tf.name_scope(scope): the graph
\* makes the name unique by counting the earlier uses of scope/base.
Uniq(g, scope, base) ==
    Cardinality({i \in 1..Len(g) : g[i].scope = scope /\ g[i].base = base})

NewVariable(g, scope, base, shape) ==
    Append(g, [scope |-> scope, base |-> base, uniq |-> Uniq(g, scope, base),
               shape |-> shape])

----------------------------------------------------------------------------
(* Activation functions handed to the builders: tf.nn.elu and tf.identity. *)

Activations == {"identity", "elu"}

\* elu(v) = v for v >= 0 and exp(v) - 1 below, rounded to the unit 0.1.
EluTable == <<-1, -2, -3, -3, -4, -5, -5, -6, -6, -6, -7, -7, -7, -8, -8,
              -8, -8, -8, -9, -9, -9, -9, -9, -9, -9, -9, -9, -9, -9>>

Elu(v) == IF v >= 0 THEN v
          ELSE IF -v <= Len(EluTable) THEN EluTable[-v] ELSE -10

Activate(fn, v) == IF fn = "elu" THEN Elu(v) ELSE v

----------------------------------------------------------------------------
(* _convolutional_layer *)

\* tf.nn.conv2d(..., 'VALID') shape inference along one spatial axis:
\* (in - k + stride) div stride, after in - k was found non-negative.
SamePaddingOutputSize(in, k, stride) == (in + stride - 1) \div stride

WindowedOutputSize(in, k, stride) == (in - k + stride) \div stride

LenientConv2dFails(x, shape) == x[4] # shape[3]

\* conv2d rejects an input whose depth differs from the kernel's and an
\* input smaller than the kernel ("Negative dimension size").
Conv2dFails(x, shape) ==
    \/ x[4] # shape[3]
    \/ x[2] < shape[1]
    \/ x[3] < shape[2]

\* strides [1, stride, stride, 1]: the same stride on height and width.
Conv2dShape(x, shape, stride) ==
    << x[1], WindowedOutputSize(x[2], shape[1], stride),
             WindowedOutputSize(x[3], shape[2], stride), shape[4] >>

AllocFirstConvolutionalLayer(g, scope, x, shape, stride) ==
    LET g1 == NewVariable(g, scope, "Weights", shape)
        g2 == NewVariable(g1, scope, "Bias", <<Len(shape)>>)
    IN  IF Len(shape) # 4
        THEN [graph |-> g2, error |-> "ValueError", out |-> <<>>]
        ELSE IF Conv2dFails(x, shape)
             THEN [graph |-> g2, error |-> "DimensionError", out |-> <<>>]
             ELSE [graph |-> g2, error |-> "none",
                   out |-> Conv2dShape(x, shape, stride)]

\* g is the graph's collection before the call, scope the enclosing name scope.
\* The activation is element-wise and leaves the shape alone.
ConvolutionalLayer(g, scope, x, shape, stride) ==
    IF Len(shape) # 4
    THEN [graph |-> g, error |-> "ValueError", out |-> <<>>]
    ELSE LET g1 == NewVariable(g, scope, "Weights", shape)
             g2 == NewVariable(g1, scope, "Bias", <<shape[4]>>)
         IN  IF Conv2dFails(x, shape)
             THEN [graph |-> g2, error |-> "DimensionError", out |-> <<>>]
             ELSE [graph |-> g2, error |-> "none",
                   out |-> Conv2dShape(x, shape, stride)]

----------------------------------------------------------------------------
(* _fully_connected_layer *)

\* The uniform initialiser draws from [-maxval, maxval] with
\* maxval = sqrt(6 / (shape[0] + shape[1])): w is in range iff
\* w * w * (shape[0] + shape[1]) <= 6.
WeightInRange(w, shape) == w * w * (shape[1] + shape[2]) <= 6

\* tf.matmul(x, W) + b, then the activation.  b has one entry per output
\* unit, or a single entry that broadcasts over the output units.
NoBroadcastForward(x, W, b, fn) ==
    [r \in 1..Len(x) |->
        [j \in 1..Len(W[1]) |->
            Activate(fn, SumTo([i \in 1..Len(W) |-> x[r][i] * W[i][j]], Len(W))
                         + (IF j <= Len(b) THEN b[j] ELSE 0))]]

DenseForward(x, W, b, fn) ==
    [r \in 1..Len(x) |->
        [j \in 1..Len(W[1]) |->
            Activate(fn, SumTo([i \in 1..Len(W) |-> x[r][i] * W[i][j]], Len(W))
                         + (IF Len(b) = 1 THEN b[1] ELSE b[j]))]]

BiasShape(shape, shared_bias) == IF shared_bias THEN <<1>> ELSE <<shape[2]>>

\* w is the draw of the uniform initialiser, x the value fed for the input.
FullyConnectedLayer(g, scope, x, shape, fn, shared_bias, w) ==
    IF Len(shape) # 2
    THEN [graph |-> g, error |-> "ValueError", W |-> <<>>, b |-> <<>>, out |-> <<>>]
    ELSE LET g1 == NewVariable(g, scope, "Weights", shape)
             bs == BiasShape(shape, shared_bias)
             g2 == NewVariable(g1, scope, "Bias", bs)
             b0 == [j \in 1..bs[1] |-> BiasInit]
         IN  IF Len(x[1]) # shape[1]
             THEN [graph |-> g2, error |-> "DimensionError",
                   W |-> w, b |-> b0, out |-> <<>>]
             ELSE [graph |-> g2, error |-> "none", W |-> w, b |-> b0,
                   out |-> DenseForward(x, w, b0, fn)]

----------------------------------------------------------------------------
(* PolicyNetwork.__init__ *)

ConvScopes == <<"Convolutional_Layer_1", "Convolutional_Layer_2",
                "Convolutional_Layer_3", "Convolutional_Layer_4">>

\* The four convolutions in turn, each on the output of the one before.
\* The first exception ends the constructor; the variables created up to
\* it stay in the graph.
RECURSIVE ConvStack(_, _, _, _)
ConvStack(g, scope, x, k) ==
    IF k > Len(ConvScopes)
    THEN [graph |-> g, error |-> "none", out |-> x, layer |-> k - 1]
    ELSE LET cin == IF k = 1 THEN x[4] ELSE NumFilters
             r == ConvolutionalLayer(g, <<scope, ConvScopes[k]>>, x,
                     <<KernelSize, KernelSize, cin, NumFilters>>, ConvStride)
         IN  IF r.error # "none"
             THEN [graph |-> r.graph, error |-> r.error, out |-> <<>>, layer |-> k]
             ELSE ConvStack(r.graph, scope, r.out, k + 1)

\* h_flat: [-1, prod(h_conv4.shape[1:])].
Flatten(x) == <<x[1], x[2] * x[3] * x[4]>>

\* The names BasicLSTMCell asks tf.get_variable for inside dynamic_rnn's
\* variable scope "rnn".  tf.get_variable ignores name scopes and refuses
\* a name that already exists in the enclosing variable scope.
LstmVarNames(scope) == {<<scope, "rnn/basic_lstm_cell/kernel">>,
                        <<scope, "rnn/basic_lstm_cell/bias">>}

StateShape == <<1, NumUnits>>

\* One call PolicyNetwork(num_actions, state_shape) made inside the caller's
\* variable scope `scope`, on a graph whose collection is g and whose
\* variable store is vs.  `self` holds the attributes assigned so far, each
\* with its static shape.  Line 93 reads lstm_output_flat, a name that is
\* bound nowhere: every call that reaches it ends in NameError, so lines
\* 93-96 (logits, value, parameters) never run.
Construct(g, vs, scope, num_actions, state_shape) ==
    LET x  == <<"None", state_shape[1], state_shape[2], state_shape[3]>>
        fe == ConvStack(g, scope, x, 1)
        args == [scope |-> scope, num_actions |-> num_actions,
                 state_shape |-> state_shape]
    IN  IF fe.error # "none"
        THEN [inst |-> args @@ [error |-> fe.error, line |-> 56 + 3 * (fe.layer - 1),
                                created |-> (Len(g) + 1)..Len(fe.graph),
                                h_flat |-> <<>>,
                                self |-> [x |-> x]],
              graph |-> fe.graph, store |-> vs]
        ELSE LET h_flat == Flatten(fe.out)
                 self1 == [x |-> x,
                           lstm_state |-> <<StateShape, StateShape>>,
                           initial_lstm_state |-> <<StateShape, StateShape>>]
             IN
             IF LstmVarNames(scope) \cap vs # {}
             THEN [inst |-> args @@ [error |-> "ValueError", line |-> 86,
                                     created |-> (Len(g) + 1)..Len(fe.graph),
                                     h_flat |-> h_flat,
                                     self |-> self1],
                   graph |-> fe.graph, store |-> vs]
             ELSE LET g1 == NewVariable(fe.graph, <<scope, "rnn/basic_lstm_cell">>,
                                        "kernel",
                                        <<h_flat[2] + NumUnits, 4 * NumUnits>>)
                      g2 == NewVariable(g1, <<scope, "rnn/basic_lstm_cell">>,
                                        "bias", <<4 * NumUnits>>)
                  IN  [inst |-> args @@ [error |-> "NameError", line |-> 93,
                                         created |-> (Len(g) + 1)..Len(g2),
                                         h_flat |-> h_flat,
                                         self |-> self1 @@
                                            [new_lstm_state |->
                                                <<StateShape, StateShape>>]],
                       graph |-> g2, store |-> vs \cup LstmVarNames(scope)]

----------------------------------------------------------------------------
(* The recurrent memory: BasicLSTMCell(256) under tf.nn.dynamic_rnn.       *)
(* A feature row and the cell's hidden width are scalars here; sigmoid and *)
(* tanh are taken at their saturation (a step at 0 and the sign).          *)

ForgetBias == 1   \* BasicLSTMCell's default forget_bias = 1.0

Sigmoid(v) == IF v > 0 THEN 1 ELSE 0

Tanh(v) == IF v > 0 THEN 1 ELSE IF v < 0 THEN -1 ELSE 0

\* Column g of [x, h] @ kernel + bias; the columns are i, j, f, o.
Gate(k, x, h, g) == x * k.W[1][g] + h * k.W[2][g] + k.b[g]

\* BasicLSTMCell.__call__: new_c = c * sigmoid(f + forget_bias)
\* + sigmoid(i) * tanh(j), new_h = tanh(new_c) * sigmoid(o).
LstmCell(k, x, s) ==
    LET i == Gate(k, x, s.h, 1)
        j == Gate(k, x, s.h, 2)
        f == Gate(k, x, s.h, 3)
        o == Gate(k, x, s.h, 4)
        new_c == s.c * Sigmoid(f + ForgetBias) + Sigmoid(i) * Tanh(j)
        new_h == Tanh(new_c) * Sigmoid(o)
    IN  [h |-> new_h, state |-> [c |-> new_c, h |-> new_h]]

\* np.zeros([1, 256]) twice: initial_lstm_state.
InitialLstmState == [c |-> 0, h |-> 0]

\* tf.nn.dynamic_rnn's loop over the time axis of inputs, shaped
\* [1, time, features].  At step t (from 0) a lane whose sequence_length
\* is <= t emits zero and keeps its state; otherwise the cell's output
\* and state are taken.
RECURSIVE RnnLoop(_, _, _, _, _, _)
RnnLoop(k, inputs, sequence_length, state, outputs, t) ==
    IF t >= Len(inputs[1])
    THEN [outputs |-> <<outputs>>, state |-> state]
    ELSE LET step == LstmCell(k, inputs[1][t + 1], state)
             copy == t >= sequence_length[1]
         IN  RnnLoop(k, inputs, sequence_length,
                     IF copy THEN state ELSE step.state,
                     Append(outputs, IF copy THEN 0 ELSE step.h),
                     t + 1)

DynamicRnn(k, inputs, sequence_length, initial_state) ==
    RnnLoop(k, inputs, sequence_length, initial_state, <<>>, 0)

Reverse(s) == [i \in 1..Len(s) |-> s[Len(s) + 1 - i]]

SingleStepRecurrentMemory(k, h_flat, lstm_state) ==
    LET r == DynamicRnn(k, <<h_flat>>, <<1>>, lstm_state)
    IN  [lstm_output |-> r.outputs[1], new_lstm_state |-> r.state]

ReversedRecurrentMemory(k, h_flat, lstm_state) ==
    LET r == DynamicRnn(k, <<Reverse(h_flat)>>, <<Len(h_flat)>>, lstm_state)
    IN  [lstm_output |-> Reverse(r.outputs[1]), new_lstm_state |-> r.state]

ZeroStartRecurrentMemory(k, h_flat, lstm_state) ==
    LET r == DynamicRnn(k, <<h_flat>>, <<Len(h_flat)>>, InitialLstmState)
    IN  [lstm_output |-> r.outputs[1], new_lstm_state |-> r.state]

\* Lines 85-91 on a fed batch h_flat and a fed lstm_state:
\* expand_dims(h_flat, [0]), dynamic_rnn with sequence_length =
\* tf.shape(x)[:1], and the reshape that drops the fake batch dimension.
RecurrentMemory(k, h_flat, lstm_state) ==
    LET lstm_input == <<h_flat>>
        batch_size == <<Len(h_flat)>>
        r == DynamicRnn(k, lstm_input, batch_size, lstm_state)
    IN  [lstm_output |-> r.outputs[1], new_lstm_state |-> r.state]

----------------------------------------------------------------------------
(* Inputs. *)

PreExisting ==
    {<<>>} \cup
    {[i \in 1..n |-> [scope |-> <<"other", "">>, base |-> "Weights",
                      uniq |-> i - 1, shape |-> <<1>>]] : n \in 1..MaxPre}

ConvInputs == {<<"None", h, w, c>> : h \in 1..MaxIn, w \in 1..MaxIn, c \in 1..MaxChan}

ConvShapes == {<<kh, kw, ci, co>> : kh \in 1..MaxKernel, kw \in 1..MaxKernel,
                                    ci \in 1..MaxChan, co \in 1..MaxChan}

\* Shape descriptors of every other length.
BadShapes(arity) ==
    UNION {Tuples(1..2, n) : n \in (0..MaxArity) \ {arity}}

\* A batch of input rows for the dense layer: each row is all zeros or a ramp.
DenseRows(n) == {[i \in 1..n |-> 0], [i \in 1..n |-> 10 * i]}

DenseInputs == UNION {Tuples(DenseRows(n), r) : r \in 1..MaxRows, n \in 1..MaxFeat}

DenseShapes == {<<n, m>> : n \in 1..MaxFeat, m \in 1..MaxOut}

WeightDraws(shape) ==
    {w \in Matrices({-1, 1}, shape[1], shape[2]) :
        \A i \in 1..shape[1], j \in 1..shape[2] : WeightInRange(w[i][j], shape)}

VarScopes == {"", "worker"}

ScenarioShapes == {<<84, 84, 3>>, <<3, 3, 1>>, <<100, 80, 3>>, <<31, 31, 1>>}

AllShapes == {<<w, h, d>> : w \in 1..MaxDim, h \in 1..MaxDim, d \in 1..MaxDepth}

Features == {0, 1}

Batches == UNION {Tuples(Features, n) : n \in 1..MaxBatch}

\* Values of the cell's kernel: the input row is fixed, the recurrent row
\* takes one sign on the i and f columns and one on the j and o columns;
\* the bias keeps its zero initial value.
KernelSamples ==
    {[W |-> <<<<1, 1, 0, 1>>, <<s, t, s, t>>>>, b |-> <<0, 0, 0, 0>>] :
        s \in {-1, 1}, t \in {-1, 1}}

NoResult == [kind |-> "none"]

NoDense == [built |-> FALSE]

----------------------------------------------------------------------------
(* Initial states. *)

InitGraph ==
    /\ trainable \in PreExisting
    /\ varStore = {}
    /\ instances = <<>>
    /\ result = NoResult
    /\ dense = NoDense

Init ==
    /\ InitGraph
    /\ lstmKernel = [W |-> <<>>, b |-> <<>>]
    /\ calls = <<>>

\* The graph left by one PolicyNetwork(4, (84, 84, 3)) call: its recurrent
\* memory is built (lines 71-91) and the cell's kernel holds some value.
InitRnn ==
    LET r == Construct(<<>>, {}, "", 4, <<84, 84, 3>>)
    IN  /\ trainable = r.graph
        /\ varStore = r.store
        /\ instances = <<r.inst>>
        /\ result = NoResult
        /\ dense = NoDense
        /\ lstmKernel \in KernelSamples
        /\ calls = <<>>

----------------------------------------------------------------------------
(* Actions. *)

\* A direct call _convolutional_layer(x, shape, stride, activation_fn).
CallConv ==
    /\ result = NoResult
    /\ \E x \in ConvInputs, shape \in ConvShapes \cup BadShapes(4),
          stride \in 1..MaxStride :
          LET r == ConvolutionalLayer(trainable, <<"", "">>, x, shape, stride)
          IN  /\ result' = [kind |-> "conv", x |-> x, shape |-> shape,
                            stride |-> stride, before |-> trainable,
                            error |-> r.error, out |-> r.out]
              /\ trainable' = r.graph
    /\ UNCHANGED <<varStore, instances, dense, lstmKernel, calls>>

\* A direct call _fully_connected_layer(x, shape, activation_fn, shared_bias).
CallDense ==
    /\ result = NoResult
    /\ \E x \in DenseInputs, shape \in DenseShapes \cup BadShapes(2),
          fn \in Activations, shared_bias \in BOOLEAN :
          \E w \in IF Len(shape) = 2 THEN WeightDraws(shape) ELSE {<<>>} :
          LET r == FullyConnectedLayer(trainable, <<"", "">>, x, shape, fn,
                                       shared_bias, w)
          IN  /\ result' = [kind |-> "dense", x |-> x, shape |-> shape,
                            shared_bias |-> shared_bias, before |-> trainable,
                            error |-> r.error, out |-> r.out]
              /\ trainable' = r.graph
              /\ dense' = IF r.error = "none"
                          THEN [built |-> TRUE, x |-> x, W |-> r.W, b |-> r.b,
                                fn |-> fn, shared_bias |-> shared_bias,
                                out0 |-> r.out]
                          ELSE dense
    /\ UNCHANGED <<varStore, instances, lstmKernel, calls>>

Abs(v) == IF v < 0 THEN -v ELSE v

\* The external optimizer assigns to one entry of the layer's bias variable.
AssignBias ==
    /\ dense.built
    /\ \E j \in 1..Len(dense.b), d \in {-1, 1} :
          LET b2 == [dense.b EXCEPT ![j] = @ + d]
          IN  /\ SumTo([n \in 1..Len(b2) |-> Abs(b2[n] - BiasInit)], Len(b2))
                    <= MaxDelta
              /\ dense' = [dense EXCEPT !.b = b2]
    /\ UNCHANGED <<trainable, varStore, instances, result, lstmKernel, calls>>

\* PolicyNetwork(num_actions, state_shape) inside a caller's variable scope.
NewNetwork(shapes, limit) ==
    /\ Len(instances) < limit
    /\ \E scope \in VarScopes, n \in 1..MaxActions, s \in shapes :
          LET r == Construct(trainable, varStore, scope, n, s)
          IN  /\ instances' = Append(instances, r.inst)
              /\ trainable' = r.graph
              /\ varStore' = r.store
    /\ UNCHANGED <<result, dense, lstmKernel, calls>>

\* One forward pass: the caller feeds a batch of feature rows and a
\* previous state, the all-zero initial state or one a pass has emitted.
Forward ==
    /\ Len(calls) < MaxCalls
    /\ \E batch \in Batches,
          prev \in {InitialLstmState} \cup {calls[n].new : n \in 1..Len(calls)} :
          LET r == RecurrentMemory(lstmKernel, batch, prev)
          IN  calls' = Append(calls, [x |-> batch, prev |-> prev,
                                      out |-> r.lstm_output,
                                      new |-> r.new_lstm_state])
    /\ UNCHANGED <<trainable, varStore, instances, result, dense, lstmKernel>>

NextLayers == CallConv \/ CallDense \/ AssignBias

NextNet == NewNetwork(ScenarioShapes, MaxInstances)

NextShapes == NewNetwork(AllShapes, 1)

NextRnn == Forward

SpecLayers == Init /\ [][NextLayers]_vars

SpecNet == Init /\ [][NextNet]_vars

SpecShapes == Init /\ [][NextShapes]_vars

SpecRnn == InitRnn /\ [][NextRnn]_vars

----------------------------------------------------------------------------
(* Properties. *)

\* floor((d - k) / stride) + 1 applied n times with the extractor's kernel
\* and stride.
RECURSIVE Reduced(_, _)
Reduced(d, n) ==
    IF n = 0 THEN d ELSE Reduced(((d - KernelSize) \div ConvStride) + 1, n - 1)

Collapses(state_shape) ==
    \E n \in 1..Len(ConvScopes) :
        \/ Reduced(state_shape[1], n) <= 0
        \/ Reduced(state_shape[2], n) <= 0

\* The rows fed one at a time through the cell, each step taking the state
\* the step before produced.
RECURSIVE FeedSequentially(_, _, _)
FeedSequentially(k, rows, s) ==
    IF rows = <<>> THEN s
    ELSE FeedSequentially(k, Tail(rows), LstmCell(k, Head(rows), s).state)

\* C1: constructing a PolicyNetwork on a state shape that survives the four
\* convolutions (84x84x3 with 4 actions among them) raises no error and
\* leaves logits of shape (B, num_actions), a value of shape (B, 1) and a
\* new recurrent state pair of shape (1, 256) each.
C1_ConstructionSucceeds ==
    \A n \in 1..Len(instances) :
        LET inst == instances[n] IN
        ~Collapses(inst.state_shape) =>
            /\ inst.error = "none"
            /\ {"logits", "value", "new_lstm_state"} \subseteq DOMAIN inst.self
            /\ inst.self.logits = <<"None", inst.num_actions>>
            /\ inst.self.value = <<"None", 1>>
            /\ inst.self.new_lstm_state = <<StateShape, StateShape>>

\* C2: the new state a forward call emits is the state reached by feeding
\* the rows one at a time, in row order, through the cell, starting from the
\* supplied state; for a single row, output and new state are those of one
\* direct invocation of the cell.
C2_NewStateIsSequentialFeed ==
    \A n \in 1..Len(calls) :
        LET c == calls[n] IN
        /\ c.new = FeedSequentially(lstmKernel, c.x, c.prev)
        /\ Len(c.x) = 1 =>
              /\ c.out = <<LstmCell(lstmKernel, c.x[1], c.prev).h>>
              /\ c.new = LstmCell(lstmKernel, c.x[1], c.prev).state

C2_Witness ==
    \E n \in 1..Len(calls) :
        /\ Len(calls[n].x) = MaxBatch
        /\ calls[n].prev # InitialLstmState
        /\ calls[n].new # calls[n].prev
        /\ calls[n].new # LstmCell(lstmKernel, calls[n].x[1], calls[n].prev).state

\* C3: a shape descriptor of the wrong length makes the builder raise the
\* arity error and leaves the graph's trainable variables as they were.
C3_ArityErrorAllocatesNothing ==
    /\ (result.kind = "conv" /\ Len(result.shape) # 4) =>
          (result.error = "ValueError" /\ trainable = result.before)
    /\ (result.kind = "dense" /\ Len(result.shape) # 2) =>
          (result.error = "ValueError" /\ trainable = result.before)

C3_Witness ==
    /\ result.kind = "conv"
    /\ Len(result.shape) = 3
    /\ result.error = "ValueError"
    /\ Len(result.before) = MaxPre
    /\ trainable = result.before

\* C4: a constructed PolicyNetwork has a parameter list of exactly
\* 2*4 + 2*1 + 2*2 entries, the weight and the bias of every layer it
\* created, each exactly once.
C4_ParameterListComplete ==
    \A n \in 1..Len(instances) :
        LET inst == instances[n] IN
        ~Collapses(inst.state_shape) =>
            /\ "parameters" \in DOMAIN inst.self
            /\ Len(inst.self.parameters) = 2 * 4 + 2 * 1 + 2 * 2
            /\ Cardinality(Range(inst.self.parameters)) = Len(inst.self.parameters)
            /\ Range(inst.self.parameters) = {trainable[i] : i \in inst.created}

\* C5: with several instances constructed in one process, each instance's
\* parameter list holds only variables that instance's own layers created.
C5_ParametersAreOwn ==
    Len(instances) >= 2 =>
        \A n \in 1..Len(instances) :
            LET inst == instances[n] IN
            ~Collapses(inst.state_shape) =>
                /\ "parameters" \in DOMAIN inst.self
                /\ Range(inst.self.parameters) \subseteq
                      {trainable[i] : i \in inst.created}

\* C6: construction ends in a dimension error, raised by one of the four
\* convolutions, exactly when one of the four reductions of width or height
\* leaves a non-positive dimension; otherwise the extractor yields features
\* of width W4 * H4 * 32.
C6_DimensionErrorIffCollapse ==
    \A n \in 1..Len(instances) :
        LET inst == instances[n] IN
        /\ Collapses(inst.state_shape) <=>
              (inst.error = "DimensionError" /\ inst.line \in {56, 59, 62, 65})
        /\ ~Collapses(inst.state_shape) =>
              inst.h_flat = <<"None", Reduced(inst.state_shape[1], 4)
                                      * Reduced(inst.state_shape[2], 4) * NumFilters>>

C6_Witness ==
    \E n \in 1..Len(instances) :
        /\ instances[n].state_shape = <<3, 3, 1>>
        /\ instances[n].error = "DimensionError"
        /\ instances[n].line = 59

\* C7: for a kernel (kh, kw, cin, cout) on an input of matching depth and at
\* least the kernel's size, the layer's output is floor((h - kh)/stride) + 1
\* high, floor((w - kw)/stride) + 1 wide and cout deep.
C7_ValidConvArithmetic ==
    (/\ result.kind = "conv"
     /\ Len(result.shape) = 4
     /\ result.x[4] = result.shape[3]
     /\ result.x[2] >= result.shape[1]
     /\ result.x[3] >= result.shape[2]) =>
        /\ result.error = "none"
        /\ result.out[2] = ((result.x[2] - result.shape[1]) \div result.stride) + 1
        /\ result.out[3] = ((result.x[3] - result.shape[2]) \div result.stride) + 1
        /\ result.out[4] = result.shape[4]

C7_Witness ==
    /\ result.kind = "conv"
    /\ result.error = "none"
    /\ result.stride = 2
    /\ result.x = <<"None", 5, 4, 1>>
    /\ result.shape = <<2, 3, 1, 2>>
    /\ result.out = <<"None", 2, 1, 2>>

\* C8: shared_bias=True allocates one bias scalar, and moving it by d moves
\* every output unit of every row by d under the identity activation;
\* shared_bias=False allocates one bias per output unit.
C8_SharedBiasBroadcasts ==
    dense.built =>
        /\ dense.shared_bias =>
              /\ Len(dense.b) = 1
              /\ trainable[Len(trainable)].shape = <<1>>
              /\ dense.fn = "identity" =>
                    \A r \in 1..Len(dense.x), j \in 1..Len(dense.W[1]) :
                        DenseForward(dense.x, dense.W, dense.b, dense.fn)[r][j]
                            = dense.out0[r][j] + (dense.b[1] - BiasInit)
        /\ ~dense.shared_bias =>
              /\ Len(dense.b) = Len(dense.W[1])
              /\ trainable[Len(trainable)].shape = <<Len(dense.W[1])>>

C8_Witness ==
    /\ dense.built
    /\ dense.shared_bias
    /\ dense.fn = "identity"
    /\ Len(dense.W[1]) = MaxOut
    /\ Len(dense.x) = MaxRows
    /\ dense.b[1] = BiasInit + MaxDelta

\* C9 as stated: every row of a batch starts from the supplied previous
\* state, so its hidden output is the cell's output on that row and that
\* state alone.
C9_RowsStartFromSameState ==
    \A n \in 1..Len(calls) :
        \A i \in 1..Len(calls[n].x) :
            calls[n].out[i] = LstmCell(lstmKernel, calls[n].x[i], calls[n].prev).h

\* C9 amended: the rows are consumed as successive time steps, so the
\* hidden output of row i depends only on rows 1..i and the supplied
\* previous state: two calls that agree on them agree on row i's output,
\* and only the first row starts from the supplied state itself.
C9_OutputDependsOnPrefix ==
    \A m, n \in 1..Len(calls) :
        LET a == calls[m]
            b == calls[n]
        IN  /\ a.out[1] = LstmCell(lstmKernel, a.x[1], a.prev).h
            /\ Len(a.out) = Len(a.x)
            /\ \A i \in 1..Len(a.x) :
                  (/\ i <= Len(b.x)
                   /\ a.prev = b.prev
                   /\ SubSeq(a.x, 1, i) = SubSeq(b.x, 1, i)) =>
                      a.out[i] = b.out[i]

C9_Witness ==
    \E m, n \in 1..Len(calls) :
        LET a == calls[m]
            b == calls[n]
        IN  /\ a.prev = b.prev
            /\ Len(a.x) = MaxBatch
            /\ Len(b.x) = MaxBatch
            /\ SubSeq(a.x, 1, 2) = SubSeq(b.x, 1, 2)
            /\ a.x[MaxBatch] # b.x[MaxBatch]
            /\ a.out[2] = b.out[2]
            /\ a.out[2] # LstmCell(lstmKernel, a.x[2], a.prev).h

\* C10: a call on the first rows followed by a call on the remaining rows,
\* fed the state the first call emitted, gives the hidden outputs and the
\* final state of one call on all the rows; and a call's result is fixed by
\* what the caller feeds, whatever calls came before.
C10_SplitBatchThreadsState ==
    \A m, n \in 1..Len(calls) :
        LET a == calls[m]
            b == calls[n]
            whole == RecurrentMemory(lstmKernel, a.x \o b.x, a.prev)
        IN  /\ (m < n /\ b.prev = a.new) =>
                  /\ whole.lstm_output = a.out \o b.out
                  /\ whole.new_lstm_state = b.new
            /\ (a.x = b.x /\ a.prev = b.prev) =>
                  (a.out = b.out /\ a.new = b.new)

C10_Witness ==
    \E m, n \in 1..Len(calls) :
        /\ m < n
        /\ calls[n].prev = calls[m].new
        /\ calls[m].new # calls[m].prev
        /\ calls[n].new # calls[n].prev
        /\ Len(calls[m].x) >= 2
        /\ Len(calls[n].x) >= 2

====
